---- MODULE Spec2Model ----
(***************************************************************************)
(* raid-status.py: the RAID registry, its three backends (MegaRAID_SAS,    *)
(* SSA, MD_RAID), the colon parser and the Zabbix entry points.            *)
(*                                                                         *)
(* A Python str is a sequence of one-character strings.  A class is named  *)
(* by its Python name.  An instance is [cls |-> class, name |-> str].      *)
(* The outcome of a call is [kind |-> "ok" or the exception raised,        *)
(* val |-> the value returned].                                            *)
(***************************************************************************)
EXTENDS Integers, Sequences, FiniteSets, TLC

VARIABLES
    pc,          \* position in the module body: index of the register() call to run next
    registry,    \* RAID.__registry, an insertion-ordered dict: sequence of [slug, cls]
    supported,   \* what each backend's is_supported() answers on this host
    megaExit,    \* exit status of `megacli -ldgetnum -a0`
    megaStdout,  \* the number megacli prints on stdout in the same run
    ssaExit,     \* exit status of the ssacli listing commands
    ssaCtrl,     \* ssacli listings: slot number -> number of "Array X (" lines (-1: slot absent)
    mdstat,      \* /proc/mdstat: the md numbers of its "mdN :" lines, in file order
    toolText,    \* what the detail-mode vendor tool prints now ("exit" field: its exit status)
    inst,        \* <<x>>, x the instance the last RAID.create returned (<<>>: it raised)
    out,         \* the last operation and its outcome
    trace,       \* what the last operation ran: is_supported, discover, __init__, exec
    pText,       \* parser harness: the text handed to parse_by_colon
    pField,      \* parser harness: the field name handed to parse_by_colon
    pOut         \* parser harness: the outcome

vars == <<pc, registry, supported, megaExit, megaStdout, ssaExit, ssaCtrl, mdstat,
          toolText, inst, out, trace, pText, pField, pOut>>
hostVars == <<supported, megaExit, megaStdout, ssaExit, ssaCtrl, mdstat>>
pollVars == <<toolText, inst>>
parseVars == <<pText, pField, pOut>>

----------------------------------------------------------------------------
(* Bounds *)

\* largest exit status megacli -ldgetnum returns
MaxCount == 3
\* controller slots 0 .. MaxSlot-1 may hold a Smart Array controller
MaxSlot == 2
\* most arrays (letters A, B, ...) on one controller
MaxLetters == 1
\* md numbers 0 .. MaxMd-1 may appear in /proc/mdstat
MaxMd == 1
\* most lines of a detail-mode tool output
MaxLines == 2
\* longest text handed to the parser harness
MaxLen == 4

----------------------------------------------------------------------------
(* Python str operations *)

WS == {" ", "\t"}

Digits == <<"0", "1", "2", "3", "4", "5", "6", "7", "8", "9">>

Letters == <<"A", "B", "C", "D", "E", "F">>

\* "{}".format(n) for an int n >= 0
RECURSIVE IntToStr(_)
IntToStr(n) ==
    IF n < 10 THEN <<Digits[n + 1]>>
    ELSE IntToStr(n \div 10) \o <<Digits[(n % 10) + 1]>>

\* the first position of character c in s at or after position i, 0 if none
RECURSIVE Find(_, _, _)
Find(s, c, i) ==
    IF i > Len(s) THEN 0
    ELSE IF s[i] = c THEN i
    ELSE Find(s, c, i + 1)

\* s.find(c) + 1: the first position of character c in s, 0 if none
IndexOf(s, c) == Find(s, c, 1)

\* s.split(c)
RECURSIVE Split(_, _)
Split(s, c) ==
    LET i == IndexOf(s, c)
    IN  IF i = 0 THEN <<s>>
        ELSE <<SubSeq(s, 1, i - 1)>> \o Split(SubSeq(s, i + 1, Len(s)), c)

\* s.split(c, 1)
SplitOnce(s, c) ==
    LET i == IndexOf(s, c)
    IN  IF i = 0 THEN <<s>>
        ELSE <<SubSeq(s, 1, i - 1), SubSeq(s, i + 1, Len(s))>>

\* s.lstrip()
RECURSIVE LStrip(_)
LStrip(s) ==
    IF s # <<>> /\ Head(s) \in WS THEN LStrip(Tail(s)) ELSE s

\* s.rstrip()
RECURSIVE RStrip(_)
RStrip(s) ==
    IF s # <<>> /\ s[Len(s)] \in WS THEN RStrip(SubSeq(s, 1, Len(s) - 1)) ELSE s

\* s.strip()
Strip(s) == RStrip(LStrip(s))

\* the concatenation of a sequence of sequences
RECURSIVE Concat(_)
Concat(ss) ==
    IF ss = <<>> THEN <<>> ELSE Head(ss) \o Concat(Tail(ss))

----------------------------------------------------------------------------
(* Classes, slugs and outcomes *)

Classes == {"MegaRAID_SAS", "SSA", "MD_RAID"}

\* the slug class attribute
Slug(cls) ==
    CASE cls = "MegaRAID_SAS" ->
            <<"m", "e", "g", "a", "r", "a", "i", "d", "_", "s", "a", "s">>
      [] cls = "SSA" -> <<"s", "s", "a">>
      [] cls = "MD_RAID" -> <<"m", "d", "_", "r", "a", "i", "d">>

Ok(v) == [kind |-> "ok", val |-> v]

Raise(e) == [kind |-> e, val |-> <<>>]

Event(ev, cls) == [ev |-> ev, cls |-> cls]

NoOp == [op |-> "none", arg |-> <<>>, kind |-> "none", val |-> <<>>]

Done(op, arg, r) == [op |-> op, arg |-> arg, kind |-> r.kind, val |-> r.val]

----------------------------------------------------------------------------
(* RAID: the registry and the factory *)

\* RAID.__str__
RAID_str(x) == Slug(x.cls) \o <<",">> \o x.name

RegistrySlugs(reg) == {reg[i].slug : i \in 1..Len(reg)}

RegistryGet(reg, slug) ==
    (CHOOSE i \in 1..Len(reg) : reg[i].slug = slug)

\* faulty variant of RAID_register: a re-registered key moves to the end of the dict
RAID_register_last(reg, cls) ==
    Append(SelectSeq(reg, LAMBDA e : e.slug # Slug(cls)), [slug |-> Slug(cls), cls |-> cls])

\* cls.__registry[cls.slug] = cls on an insertion-ordered dict: a key already
\* present keeps its position and takes the new value, a new key goes last
RAID_register(reg, cls) ==
    IF Slug(cls) \in RegistrySlugs(reg)
    THEN [i \in 1..Len(reg) |->
            IF reg[i].slug = Slug(cls) THEN [slug |-> Slug(cls), cls |-> cls]
            ELSE reg[i]]
    ELSE Append(reg, [slug |-> Slug(cls), cls |-> cls])

\* the constructor a class runs on positional arguments args: RAID.__init__
\* takes exactly one (TypeError otherwise); MegaRAID_SAS.__init__ also unpacks
\* name.split(':') into two names (ValueError otherwise)
Construct(cls, args) ==
    IF Len(args) # 1 THEN Raise("TypeError")
    ELSE IF cls = "MegaRAID_SAS" /\ Len(Split(args[1], ":")) # 2
         THEN Raise("ValueError")
    ELSE Ok(<<[cls |-> cls, name |-> args[1]]>>)

\* faulty variant of RAID_create: an unregistered slug falls back to a default backend
RAID_create_default(reg, serialized_name) ==
    LET data == Split(serialized_name, ",")
        slug == Head(data)
    IN  IF slug \notin RegistrySlugs(reg) THEN Construct("MD_RAID", Tail(data))
        ELSE Construct(reg[RegistryGet(reg, slug)].cls, Tail(data))

\* RAID.create
RAID_create(reg, serialized_name) ==
    LET data == Split(serialized_name, ",")
        slug == Head(data)
    IN  IF slug \notin RegistrySlugs(reg) THEN Raise("ValueError")
        ELSE Construct(reg[RegistryGet(reg, slug)].cls, Tail(data))

\* the trace of RAID.create: the constructor runs only for a registered slug
CreateTrace(reg, serialized_name) ==
    LET slug == Head(Split(serialized_name, ","))
    IN  IF slug \notin RegistrySlugs(reg) THEN <<>>
        ELSE <<Event("__init__", reg[RegistryGet(reg, slug)].cls)>>

----------------------------------------------------------------------------
(* Discovery *)

\* range(n)
Range(n) == IF n > 0 THEN [i \in 1..n |-> i - 1] ELSE <<>>

\* faulty variant of ColonName: the name fields joined by the handle's own separator
ColonName_comma(a, b) == a \o <<",">> \o b

\* "{}:{}".format(a, b)
ColonName(a, b) == a \o <<":">> \o b

\* faulty variant of MegaRAID_SAS_discover: the count taken from stdout
MegaRAID_SAS_discover_stdout(exit, stdout) ==
    [i \in 1..stdout |->
        [cls |-> "MegaRAID_SAS", name |-> IntToStr(0) \o <<":">> \o IntToStr(i - 1)]]

\* MegaRAID_SAS.discover: the exit status is the count, stdout goes to devnull
MegaRAID_SAS_discover(exit, stdout) ==
    LET idx == Range(exit)
    IN  [i \in 1..Len(idx) |->
            [cls |-> "MegaRAID_SAS", name |-> ColonName(IntToStr(0), IntToStr(idx[i]))]]

\* the slots the 'Smart Array .+ in Slot (\d+).+' lines of `ctrl all show` name
SSA_ctrls(listing) ==
    LET RECURSIVE From(_)
        From(s) ==
            IF s >= MaxSlot THEN <<>>
            ELSE (IF listing[s] >= 0 THEN <<IntToStr(s)>> ELSE <<>>) \o From(s + 1)
    IN  From(0)

\* the letters the '.*Array ([A-Z]) \(' lines of `ctrl slot=N array all show` name
SSA_arrays(listing, s) ==
    [k \in 1..listing[s] |-> <<Letters[k]>>]

\* SSA.discover: every controller slot, then every array of that slot
SSA_discover(listing) ==
    LET RECURSIVE From(_)
        From(s) ==
            IF s >= MaxSlot THEN <<>>
            ELSE (IF listing[s] >= 0
                  THEN [k \in 1..listing[s] |->
                          [cls |-> "SSA",
                           name |-> ColonName(IntToStr(s), SSA_arrays(listing, s)[k])]]
                  ELSE <<>>) \o From(s + 1)
    IN  From(0)

\* MD_RAID.discover: group 1 of '^md(\d+)\s+:' on every line of /proc/mdstat
MD_RAID_discover(lines) ==
    [i \in 1..Len(lines) |-> [cls |-> "MD_RAID", name |-> IntToStr(lines[i])]]

\* rcls.discover() for a registered class: the list it returns, or the
\* CalledProcessError of check_output when ssacli exits non-zero
BackendDiscover(cls) ==
    CASE cls = "MegaRAID_SAS" -> Ok(MegaRAID_SAS_discover(megaExit, megaStdout))
      [] cls = "SSA" ->
            IF ssaExit # 0 THEN Raise("CalledProcessError") ELSE Ok(SSA_discover(ssaCtrl))
      [] cls = "MD_RAID" -> Ok(MD_RAID_discover(mdstat))

\* the external commands and constructors one backend's discover() runs
BackendTrace(cls) ==
    LET found == BackendDiscover(cls)
        execs == CASE cls = "MegaRAID_SAS" -> <<Event("exec", cls)>>
                   [] cls = "SSA" ->
                        IF ssaExit # 0 THEN <<Event("exec", cls)>>
                        ELSE [i \in 1..(1 + Len(SSA_ctrls(ssaCtrl))) |-> Event("exec", cls)]
                   [] cls = "MD_RAID" -> <<Event("open", cls)>>
    IN  <<Event("discover", cls)>> \o execs
            \o [i \in 1..Len(found.val) |-> Event("__init__", cls)]

\* faulty variant of Takes: the loop without its is_supported() test
Takes_all(cls) == TRUE

\* whether the loop of RAID.discover takes this registry entry
Takes(cls) == supported[cls]

\* the loop of RAID.discover from entry i on, discovered being the list so far:
\* an exception of a backend's discover() ends the loop and the call
RECURSIVE DiscoverFrom(_, _, _)
DiscoverFrom(reg, i, discovered) ==
    IF i > Len(reg) THEN Ok(discovered)
    ELSE IF ~Takes(reg[i].cls) THEN DiscoverFrom(reg, i + 1, discovered)
    ELSE LET r == BackendDiscover(reg[i].cls)
         IN  IF r.kind # "ok" THEN r
             ELSE DiscoverFrom(reg, i + 1, discovered \o r.val)

\* RAID.discover: every registered class in dict order, the supported ones discovered
RAID_discover(reg) == DiscoverFrom(reg, 1, <<>>)

RECURSIVE DiscoverTraceFrom(_, _)
DiscoverTraceFrom(reg, i) ==
    IF i > Len(reg) THEN <<>>
    ELSE <<Event("is_supported", reg[i].cls)>>
           \o (IF ~Takes(reg[i].cls) THEN DiscoverTraceFrom(reg, i + 1)
               ELSE BackendTrace(reg[i].cls)
                      \o (IF BackendDiscover(reg[i].cls).kind # "ok" THEN <<>>
                          ELSE DiscoverTraceFrom(reg, i + 1)))

\* what RAID.discover runs, in order
RAID_discover_trace(reg) == DiscoverTraceFrom(reg, 1)

----------------------------------------------------------------------------
(* The output parser *)

\* i.split(':', 1)[0].strip() == field_to_extract, the filter of the comprehension
KeyIs(line, field) == Strip(SplitOnce(line, ":")[1]) = field

\* the index error of i.split(':', 1)[1] on a line that has no colon
HasValue(line) == Len(SplitOnce(line, ":")) = 2

\* parse_by_colon: the comprehension takes [1] of every line that passes the
\* filter, then [0] of the list; either subscript may raise IndexError
parse_by_colon(string_to_parse, field_to_extract) ==
    LET lines == Split(string_to_parse, "\n")
        kept == SelectSeq(lines, LAMBDA l : KeyIs(l, field_to_extract))
    IN  IF \E k \in 1..Len(kept) : ~HasValue(kept[k]) THEN Raise("IndexError")
        ELSE IF kept = <<>> THEN Raise("IndexError")
        ELSE Ok(Strip(SplitOnce(kept[1], ":")[2]))

----------------------------------------------------------------------------
(* The status and stable_name properties *)

KeyState == <<"S", "t", "a", "t", "e">>
KeyName == <<"N", "a", "m", "e">>
KeyStatus == <<"S", "t", "a", "t", "u", "s">>
Optimal == <<"O", "p", "t", "i", "m", "a", "l">>
Clean == <<"c", "l", "e", "a", "n">>
Active == <<"a", "c", "t", "i", "v", "e">>
RawOK == <<"O", "K">>

\* what the tool writes on stdout: its lines, each ended by a newline
Text(tool) == Concat([i \in 1..Len(tool.lines) |-> tool.lines[i] \o <<"\n">>])

\* subprocess.check_output(...).decode('utf-8')
check_output(tool) ==
    IF tool.exit # 0 THEN Raise("CalledProcessError") ELSE Ok(Text(tool))

\* a, b = self.name.split(':')
Unpacks(name) == Len(Split(name, ":")) = 2

\* MegaRAID_SAS.__ldinfo
MegaRAID_SAS_ldinfo(self, tool) ==
    IF ~Unpacks(self.name) THEN Raise("ValueError") ELSE check_output(tool)

\* MegaRAID_SAS.status
MegaRAID_SAS_status(self, tool) ==
    LET r == MegaRAID_SAS_ldinfo(self, tool)
    IN  IF r.kind # "ok" THEN r ELSE parse_by_colon(r.val, KeyState)

\* MegaRAID_SAS.stable_name
MegaRAID_SAS_stable_name(self, tool) ==
    LET r == MegaRAID_SAS_ldinfo(self, tool)
    IN  IF r.kind # "ok" THEN r ELSE parse_by_colon(r.val, KeyName)

\* SSA.XLATE_STATUS.get(status, status)
SSA_XLATE_STATUS(status) == IF status = RawOK THEN Optimal ELSE status

\* SSA.status
SSA_status(self, tool) ==
    IF ~Unpacks(self.name) THEN Raise("ValueError")
    ELSE LET r == check_output(tool)
             p == parse_by_colon(r.val, KeyStatus)
         IN  IF r.kind # "ok" THEN r
             ELSE IF p.kind # "ok" THEN p
             ELSE Ok(SSA_XLATE_STATUS(p.val))

\* SSA.stable_name
SSA_stable_name(self, tool) == Ok(self.name)

\* faulty variant of MD_RAID_XLATE_STATUS: XLATE_STATUS.get(status, 'Unknown')
MD_RAID_XLATE_coerce(status) ==
    IF status = Clean THEN Optimal
    ELSE IF status = Active THEN Optimal
    ELSE <<"U", "n", "k", "n", "o", "w", "n">>

\* MD_RAID.XLATE_STATUS.get(status, status)
MD_RAID_XLATE_STATUS(status) ==
    IF status = Clean THEN Optimal
    ELSE IF status = Active THEN Optimal
    ELSE status

\* MD_RAID.__detail
MD_RAID_detail(self, tool) == check_output(tool)

\* MD_RAID.status
MD_RAID_status(self, tool) ==
    LET r == MD_RAID_detail(self, tool)
        p == parse_by_colon(r.val, KeyState)
    IN  IF r.kind # "ok" THEN r
        ELSE IF p.kind # "ok" THEN p
        ELSE Ok(MD_RAID_XLATE_STATUS(p.val))

\* faulty variant of MD_RAID_stable_name: the whole Name value, not split
MD_RAID_stable_name_whole(self, tool) ==
    LET r == check_output(tool)
        p == parse_by_colon(r.val, KeyName)
    IN  IF r.kind # "ok" THEN r ELSE p

\* MD_RAID.stable_name
MD_RAID_stable_name(self, tool) ==
    LET r == MD_RAID_detail(self, tool)
        p == parse_by_colon(r.val, KeyName)
    IN  IF r.kind # "ok" THEN r
        ELSE IF p.kind # "ok" THEN p
        ELSE Ok(SplitOnce(p.val, " ")[1])

\* faulty variant of StatusOf: the status memoised, the value an earlier read returned is kept
StatusOf_cached(x, tool) ==
    IF out.op \in {"status", "zabbix_status"} /\ out.kind = "ok" THEN Ok(out.val)
    ELSE CASE x.cls = "MegaRAID_SAS" -> MegaRAID_SAS_status(x, tool)
           [] x.cls = "SSA" -> SSA_status(x, tool)
           [] x.cls = "MD_RAID" -> MD_RAID_status(x, tool)

\* x.status, by the class of x
StatusOf(x, tool) ==
    CASE x.cls = "MegaRAID_SAS" -> MegaRAID_SAS_status(x, tool)
      [] x.cls = "SSA" -> SSA_status(x, tool)
      [] x.cls = "MD_RAID" -> MD_RAID_status(x, tool)

\* x.stable_name, by the class of x
StableNameOf(x, tool) ==
    CASE x.cls = "MegaRAID_SAS" -> MegaRAID_SAS_stable_name(x, tool)
      [] x.cls = "SSA" -> SSA_stable_name(x, tool)
      [] x.cls = "MD_RAID" -> MD_RAID_stable_name(x, tool)

\* whether reading x.status runs the vendor tool
StatusExecs(x) ==
    CASE x.cls = "MegaRAID_SAS" -> Unpacks(x.name)
      [] x.cls = "SSA" -> Unpacks(x.name)
      [] x.cls = "MD_RAID" -> TRUE

\* whether reading x.stable_name runs the vendor tool
StableNameExecs(x) ==
    CASE x.cls = "MegaRAID_SAS" -> Unpacks(x.name)
      [] x.cls = "SSA" -> FALSE
      [] x.cls = "MD_RAID" -> TRUE

ExecTrace(x, runs) == IF runs THEN <<Event("exec", x.cls)>> ELSE <<>>

----------------------------------------------------------------------------
(* The host: what the vendor tools and the file system answer *)

\* the sequences without repetition over a set
RECURSIVE Perms(_)
Perms(S) ==
    {<<>>} \cup UNION {{<<x>> \o p : p \in Perms(S \ {x})} : x \in S}

MdstatFiles == Perms(0..(MaxMd - 1))

SsaListings == [0..(MaxSlot - 1) -> -1..MaxLetters]

NoListing == [s \in 0..(MaxSlot - 1) |-> -1]

InitHost ==
    /\ supported \in [Classes -> BOOLEAN]
    /\ megaExit \in -1..MaxCount
    /\ megaStdout \in {0, 2}
    /\ ssaExit \in {0, 1}
    /\ ssaCtrl \in SsaListings
    /\ ssaExit # 0 => ssaCtrl = NoListing
    /\ mdstat \in MdstatFiles

NoHost ==
    /\ supported = [c \in Classes |-> FALSE]
    /\ megaExit = 0
    /\ megaStdout = 0
    /\ ssaExit = 0
    /\ ssaCtrl = NoListing
    /\ mdstat = <<>>

NoPoll ==
    /\ toolText = [exit |-> 0, lines |-> <<>>]
    /\ inst = <<>>

NoParse ==
    /\ pText = <<>>
    /\ pField = <<>>
    /\ pOut = NoOp

----------------------------------------------------------------------------
(* The module body: the three register() calls, lines 109, 166 and 219 *)

StartupOrder == <<"MegaRAID_SAS", "SSA", "MD_RAID">>

InitModule ==
    /\ pc = 1
    /\ registry = <<>>
    /\ out = NoOp
    /\ trace = <<>>

AtMain == pc > Len(StartupOrder)

\* <subclass>.register() at the end of each class definition
Import ==
    /\ ~AtMain
    /\ registry' = RAID_register(registry, StartupOrder[pc])
    /\ pc' = pc + 1
    /\ UNCHANGED <<hostVars, pollVars, out, trace, parseVars>>

\* a further <subclass>.register() call of an already defined class
Register(cls) ==
    /\ AtMain
    /\ registry' = RAID_register(registry, cls)
    /\ UNCHANGED <<pc, hostVars, pollVars, out, trace, parseVars>>

----------------------------------------------------------------------------
(* The discovery path *)

\* RAID.discover() (cls = "RAID") or a backend's own discover()
Discover(cls) ==
    /\ AtMain
    /\ out' = Done("discover", cls,
                   IF cls = "RAID" THEN RAID_discover(registry) ELSE BackendDiscover(cls))
    /\ trace' = IF cls = "RAID" THEN RAID_discover_trace(registry) ELSE BackendTrace(cls)
    /\ UNCHANGED <<pc, registry, hostVars, pollVars, parseVars>>

\* RAID.create(str(x)) for the i-th instance x of the list discover() returned
Resolve(i) ==
    /\ AtMain
    /\ out.op = "discover"
    /\ out.kind = "ok"
    /\ i \in 1..Len(out.val)
    /\ out' = Done("create", RAID_str(out.val[i]),
                   RAID_create(registry, RAID_str(out.val[i])))
    /\ trace' = CreateTrace(registry, RAID_str(out.val[i]))
    /\ UNCHANGED <<pc, registry, hostVars, pollVars, parseVars>>

\* the longest list discover() returns on a host within the bounds
DiscoverMax == MaxCount + MaxSlot * MaxLetters + MaxMd

Init == InitModule /\ InitHost /\ NoPoll /\ NoParse

Next ==
    \/ Import
    \/ \E cls \in Classes : Register(cls)
    \/ \E cls \in Classes \cup {"RAID"} : Discover(cls)
    \/ \E i \in 1..DiscoverMax : Resolve(i)

Spec == Init /\ [][Next]_vars

----------------------------------------------------------------------------
(* The polling path *)

\* slug,field,... : the handle strings the monitoring system may replay
Handle(slug, fields) ==
    slug \o Concat([i \in 1..Len(fields) |-> <<",">> \o fields[i]])

UnknownSlug == <<"u", "n", "k", "n", "o", "w", "n", "_", "s", "l", "u", "g">>

Handles ==
    { Handle(Slug("MegaRAID_SAS"), <<<<"0", ":", "1">>>>),
      Handle(Slug("MegaRAID_SAS"), <<<<"0">>>>),
      Handle(Slug("SSA"), <<<<"1", ":", "A">>>>),
      Handle(Slug("SSA"), <<<<"1">>>>),
      Handle(Slug("MD_RAID"), <<<<"0">>>>),
      Handle(Slug("MD_RAID"), <<<<"1">>, <<"2">>>>),
      Handle(Slug("MD_RAID"), <<>>),
      Handle(UnknownSlug, <<<<"1">>>>) }

\* lines a detail-mode tool may print
ToolLines ==
    { <<"S", "t", "a", "t", "e", " ", ":", " ", "c", "l", "e", "a", "n">>,
      <<"S", "t", "a", "t", "e", " ", ":", " ", "a", "c", "t", "i", "v", "e">>,
      <<"S", "t", "a", "t", "e", " ", ":", " ", "d", "e", "g", "r", "a", "d", "e", "d">>,
      <<"N", "a", "m", "e", " ", ":", " ", "h", ":", "a", " ", "x">>,
      <<"N", "a", "m", "e", " ", ":", " ", "h", "\t", "a", " ", "x">>,
      <<"S", "t", "a", "t", "u", "s", " ", ":", " ", "O", "K">>,
      <<"S", "t", "a", "t", "e">> }

\* the vendor tool has one more line to report
VendorWrites(line) ==
    /\ AtMain
    /\ Len(toolText.lines) < MaxLines
    /\ toolText' = [exit |-> 0, lines |-> Append(toolText.lines, line)]
    /\ UNCHANGED <<pc, registry, hostVars, inst, out, trace, parseVars>>

\* the vendor tool comes to fail: it prints nothing and exits non-zero
VendorFails ==
    /\ AtMain
    /\ toolText' = [exit |-> 1, lines |-> <<>>]
    /\ UNCHANGED <<pc, registry, hostVars, inst, out, trace, parseVars>>

\* the vendor tool's report starts afresh
VendorClears ==
    /\ AtMain
    /\ toolText' = [exit |-> 0, lines |-> <<>>]
    /\ UNCHANGED <<pc, registry, hostVars, inst, out, trace, parseVars>>

\* a further read of x.status on the instance RAID.create returned last
Status ==
    /\ AtMain
    /\ inst # <<>>
    /\ out' = Done("status", RAID_str(inst[1]), StatusOf(inst[1], toolText))
    /\ trace' = ExecTrace(inst[1], StatusExecs(inst[1]))
    /\ UNCHANGED <<pc, registry, hostVars, toolText, inst, parseVars>>

\* a further read of x.stable_name on the instance RAID.create returned last
StableName ==
    /\ AtMain
    /\ inst # <<>>
    /\ out' = Done("stable_name", RAID_str(inst[1]), StableNameOf(inst[1], toolText))
    /\ trace' = ExecTrace(inst[1], StableNameExecs(inst[1]))
    /\ UNCHANGED <<pc, registry, hostVars, toolText, inst, parseVars>>

\* zabbix_status(name): print(RAID.create(name).status)
zabbix_status(name) ==
    /\ AtMain
    /\ LET r == RAID_create(registry, name)
       IN  /\ inst' = r.val
           /\ IF r.kind # "ok"
              THEN /\ out' = Done("zabbix_status", name, r)
                   /\ trace' = CreateTrace(registry, name)
              ELSE /\ out' = Done("zabbix_status", name, StatusOf(r.val[1], toolText))
                   /\ trace' = CreateTrace(registry, name)
                                 \o ExecTrace(r.val[1], StatusExecs(r.val[1]))
    /\ UNCHANGED <<pc, registry, hostVars, toolText, parseVars>>

\* zabbix_stable_name(name): print(RAID.create(name).stable_name)
zabbix_stable_name(name) ==
    /\ AtMain
    /\ LET r == RAID_create(registry, name)
       IN  /\ inst' = r.val
           /\ IF r.kind # "ok"
              THEN /\ out' = Done("zabbix_stable_name", name, r)
                   /\ trace' = CreateTrace(registry, name)
              ELSE /\ out' = Done("zabbix_stable_name", name, StableNameOf(r.val[1], toolText))
                   /\ trace' = CreateTrace(registry, name)
                                 \o ExecTrace(r.val[1], StableNameExecs(r.val[1]))
    /\ UNCHANGED <<pc, registry, hostVars, toolText, parseVars>>

InitPoll == InitModule /\ NoHost /\ NoPoll /\ NoParse

NextPoll ==
    \/ Import
    \/ \E line \in ToolLines : VendorWrites(line)
    \/ VendorFails
    \/ VendorClears
    \/ Status
    \/ StableName
    \/ \E h \in Handles : zabbix_status(h)
    \/ \E h \in Handles : zabbix_stable_name(h)

SpecPoll == InitPoll /\ [][NextPoll]_vars

----------------------------------------------------------------------------
(* The parser on its own: every short text, every short field name *)

Alphabet == {"a", "b", ":", " ", "\t", "\n"}

RECURSIVE StringsUpTo(_, _)
StringsUpTo(A, n) ==
    IF n = 0 THEN {<<>>}
    ELSE LET shorter == StringsUpTo(A, n - 1)
         IN  shorter \cup {Append(s, c) : s \in shorter, c \in A}

FieldNames == StringsUpTo({"a", "b"}, 1)

InitParser ==
    /\ InitModule
    /\ NoHost
    /\ NoPoll
    /\ pText \in StringsUpTo(Alphabet, MaxLen)
    /\ pField \in FieldNames
    /\ pOut = NoOp

\* parse_by_colon(pText, pField)
Parse ==
    /\ pOut' = Done("parse_by_colon", pField, parse_by_colon(pText, pField))
    /\ UNCHANGED <<pc, registry, hostVars, pollVars, out, trace, pText, pField>>

NextParser == Parse

SpecParser == InitParser /\ [][NextParser]_vars

----------------------------------------------------------------------------
(* What the claims speak of, stated apart from the code *)

Unknown == <<"U", "n", "k", "n", "o", "w", "n">>

\* the lines of a text that have a colon and whose trimmed left side is key
Keyed(text, key) ==
    SelectSeq(Split(text, "\n"),
              LAMBDA l : /\ IndexOf(l, ":") > 0
                         /\ Strip(SubSeq(l, 1, IndexOf(l, ":") - 1)) = key)

HasField(text, key) == Keyed(text, key) # <<>>

\* the trimmed right side of the first such line
FirstField(text, key) ==
    LET l == Keyed(text, key)[1]
    IN  Strip(SubSeq(l, IndexOf(l, ":") + 1, Len(l)))

\* the first whitespace-delimited token of a trimmed value
RECURSIVE FirstToken(_)
FirstToken(v) ==
    IF v = <<>> \/ Head(v) \in WS THEN <<>> ELSE <<Head(v)>> \o FirstToken(Tail(v))

\* the part of a value before its first space
RECURSIVE BeforeSpace(_)
BeforeSpace(v) ==
    IF v = <<>> \/ Head(v) = " " THEN <<>> ELSE <<Head(v)>> \o BeforeSpace(Tail(v))

HasChar(s, C) == \E i \in 1..Len(s) : s[i] \in C

ZabbixOps == {"zabbix_status", "zabbix_stable_name"}

\* a handle of a registered backend whose fields that backend cannot take
Malformed(h) ==
    LET data == Split(h, ",")
        fields == Tail(data)
    IN  /\ Head(data) \in {Slug(c) : c \in Classes}
        /\ \/ Len(fields) # 1
           \/ /\ Head(data) \in {Slug("MegaRAID_SAS"), Slug("SSA")}
              /\ Len(Split(fields[1], ":")) # 2

MegaHandlePrefix ==
    <<"m", "e", "g", "a", "r", "a", "i", "d", "_", "s", "a", "s", ",", "0", ":">>

\* what each supported backend contributes to RAID.discover()
Found(cls) == IF supported[cls] THEN BackendDiscover(cls).val ELSE <<>>

\* a status read: a further read, or the read of zabbix_status
StatusStep == Status \/ \E h \in Handles : zabbix_status(h)

\* a stable_name read: a further read, or the read of zabbix_stable_name
StableNameStep == StableName \/ \E h \in Handles : zabbix_stable_name(h)

\* the canonical status of a raw vendor status, per backend
Translated(cls, raw) ==
    CASE cls = "MegaRAID_SAS" -> raw
      [] cls = "SSA" -> IF raw = RawOK THEN Optimal ELSE raw
      [] cls = "MD_RAID" -> IF raw \in {Clean, Active} THEN Optimal ELSE raw

StatusKey(cls) == IF cls = "SSA" THEN KeyStatus ELSE KeyState

----------------------------------------------------------------------------
(* Claims *)

\* C1: round trip of handles. For every instance x a discover() returned,
\* RAID.create(str(x)) returns an instance of the same class with the same
\* name, whose str() is str(x).
C1_RoundTrip ==
    [][\A i \in 1..DiscoverMax :
          Resolve(i) =>
              /\ out'.kind = "ok"
              /\ Len(out'.val) = 1
              /\ out'.val[1].cls = out.val[i].cls
              /\ out'.val[1].name = out.val[i].name
              /\ RAID_str(out'.val[1]) = RAID_str(out.val[i])]_vars

C1_Witness ==
    /\ out.op = "create"
    /\ out.kind = "ok"
    /\ out.val[1].cls = "MegaRAID_SAS"
    /\ out.arg = MegaHandlePrefix \o <<"2">>

\* C2: the list RAID.discover() returns holds no instance of a backend whose
\* is_supported() answered false, and nothing of that backend but
\* is_supported() ran: not its discover(), its tool or its constructor.
C2_UnsupportedExcluded ==
    (out.op = "discover" /\ out.arg = "RAID") =>
        \A c \in Classes :
            ~supported[c] =>
                /\ \A i \in 1..Len(out.val) : out.val[i].cls # c
                /\ \A k \in 1..Len(trace) : trace[k].cls = c => trace[k].ev = "is_supported"

C2_Witness ==
    /\ out.op = "discover"
    /\ out.arg = "RAID"
    /\ out.kind = "ok"
    /\ ~supported["MegaRAID_SAS"]
    /\ megaExit > 0
    /\ supported["MD_RAID"]
    /\ Len(out.val) > 0

\* C3: RAID.create on a handle whose first field is no registered slug raises
\* ValueError; no constructor and no vendor tool ran, no instance exists.
C3_UnknownBackend ==
    (out.op \in ZabbixOps /\ Head(Split(out.arg, ",")) \notin RegistrySlugs(registry)) =>
        /\ out.kind = "ValueError"
        /\ trace = <<>>
        /\ inst = <<>>

C3_Witness ==
    /\ out.op = "zabbix_status"
    /\ out.arg = Handle(UnknownSlug, <<<<"1">>>>)
    /\ out.kind = "ValueError"

\* C4: neither zabbix_status nor zabbix_stable_name prints a result for a
\* handle whose fields have the wrong count or shape for its backend.
C4_MalformedFatal ==
    (out.op \in ZabbixOps /\ Malformed(out.arg)) => out.kind # "ok"

C6_MegaDiscover ==
    (out.op = "discover" /\ out.arg = "MegaRAID_SAS") =>
        /\ out.kind = "ok"
        /\ Len(out.val) = (IF megaExit > 0 THEN megaExit ELSE 0)
        /\ \A i \in 1..Len(out.val) :
              /\ out.val[i].cls = "MegaRAID_SAS"
              /\ RAID_str(out.val[i]) = MegaHandlePrefix \o IntToStr(i - 1)

C6_Witness ==
    /\ out.op = "discover"
    /\ out.arg = "MegaRAID_SAS"
    /\ megaExit = 3
    /\ megaStdout # 3
    /\ Len(out.val) = 3

\* C7: parse_by_colon returns the trimmed value of the first line whose
\* trimmed key equals the field, and raises when no line has that key.
C7_ParserContract ==
    pOut.op = "parse_by_colon" =>
        IF HasField(pText, pField)
        THEN pOut.kind = "ok" /\ pOut.val = FirstField(pText, pField)
        ELSE pOut.kind = "IndexError"

\* C8 as claimed: MD_RAID.stable_name returns the first whitespace-delimited
\* token of the Name field, and the name never holds a whitespace character.
C8_FirstWhitespaceToken ==
    [][(StableNameStep /\ inst' # <<>> /\ inst'[1].cls = "MD_RAID" /\ out'.kind = "ok") =>
          /\ HasField(Text(toolText), KeyName)
          /\ out'.val = FirstToken(FirstField(Text(toolText), KeyName))
          /\ ~HasChar(out'.val, WS)]_vars

\* C8 as amended: MD_RAID.stable_name returns the part of the trimmed Name
\* field before its first space, and the name never holds a space.
C8_FirstSpaceToken ==
    [][(StableNameStep /\ inst' # <<>> /\ inst'[1].cls = "MD_RAID" /\ out'.kind = "ok") =>
          /\ HasField(Text(toolText), KeyName)
          /\ out'.val = BeforeSpace(FirstField(Text(toolText), KeyName))
          /\ ~HasChar(out'.val, {" "})]_vars

C8_Witness ==
    /\ out.op = "zabbix_stable_name"
    /\ inst # <<>>
    /\ inst[1].cls = "MD_RAID"
    /\ out.kind = "ok"
    /\ out.val = <<"h", ":", "a">>

\* C9: RAID.discover() returns what the supported backends found, MegaRAID_SAS
\* first, then SSA, then MD_RAID, each backend's own order kept, whatever
\* register() calls were made.
C9_RegistrationOrder ==
    (out.op = "discover" /\ out.arg = "RAID" /\ out.kind = "ok") =>
        out.val = Found("MegaRAID_SAS") \o Found("SSA") \o Found("MD_RAID")

C9_Witness ==
    /\ out.op = "discover"
    /\ out.arg = "RAID"
    /\ out.kind = "ok"
    /\ Len(Found("MegaRAID_SAS")) > 1
    /\ Len(Found("SSA")) > 1
    /\ Len(Found("MD_RAID")) > 0

\* C10: a further read of x.status runs the vendor tool again and returns the
\* translation of what the tool reports at that read; the read changes
\* neither the instance nor the registry.
C10_StatusNotCached ==
    [][Status =>
          /\ inst' = inst
          /\ registry' = registry
          /\ out'.kind = "ok" =>
                /\ trace' = <<Event("exec", inst[1].cls)>>
                /\ HasField(Text(toolText), StatusKey(inst[1].cls))
                /\ out'.val = Translated(inst[1].cls,
                                         FirstField(Text(toolText), StatusKey(inst[1].cls)))]_vars

C10_Witness ==
    /\ out.op = "status"
    /\ out.kind = "ok"
    /\ inst[1].cls = "MegaRAID_SAS"
    /\ out.val = Active

====
